---- MODULE Spec2Model ----
(***************************************************************************)
(* Model of the WebRTC signalling relay in src/src/server.ts.              *)
(*                                                                         *)
(* The server keeps three tables (swarms, peerIdToSocket, socketSwarmMap)  *)
(* and reacts to four transport events per socket: connection, message,    *)
(* close and error.  Every handler runs to completion (Node's single       *)
(* threaded event loop), so each handler is one action.                    *)
(***************************************************************************)
EXTENDS Integers, Sequences, FiniteSets, TLC

\* ------------------------------------------------------------------ bounds
\* how many peer identifiers the clients choose from
MaxPeerIds == 2

\* the sockets the transport may accept, in this order; a run with two
\* sockets uses Pair
Sockets == {1, 2, 3}
Pair == {1, 2}

PeerNames == <<"p1", "p2", "p3", "p4">>

\* ------------------------------------------------------- JavaScript values
\* A JSON value as far as the handler can tell values apart: its typeof and
\* its content.
Str(s) == [type |-> "string", val |-> s]
Undefined == [type |-> "undefined", val |-> ""]
EmptyStr == Str("")
Num1 == [type |-> "number", val |-> "1"]
\* the number literal 1e999, the number it decodes to, and null
Huge == [type |-> "number", val |-> "1e999"]
Infinity == [type |-> "number", val |-> "Infinity"]
Null == [type |-> "object", val |-> "null"]

H1 == Str("h1")
H2 == Str("h2")
Infohashes == {H1, H2}
PeerIds == {Str(PeerNames[i]) : i \in 1..MaxPeerIds}

\* JavaScript truthiness (the ! operator of lines 44, 45 and the && of 67)
Truthy(v) ==
  CASE v.type = "undefined" -> FALSE
    [] v.type = "string" -> v.val # ""
    [] v.type = "number" -> v.val # "0"
    [] v.type = "object" -> v.val # "null"
    [] OTHER -> TRUE

TypeOf(v) == v.type

\* ------------------------------------------------------------ wire frames
\* A frame is its text.  kind "text" is a text that is not JSON, kind "null"
\* is the JSON text null, kind "object" is a JSON object with the listed
\* members (Undefined: member absent); spaced tells whether the text carries
\* insignificant whitespace between its tokens.
Frame(kind, spaced, i, p, t, o) ==
  [kind |-> kind, spaced |-> spaced, infohash |-> i, peerId |-> p,
   toPeerId |-> t, offer |-> o]

Offer == Str("sdp")

P1 == Str(PeerNames[1])

\* frames that pass the validation: every infohash, peerId and target, and
\* for one sender the targets that are no usable key, a spaced text without
\* payload and a payload that is a number beyond the range of a double
ValidFrames ==
  {Frame("object", FALSE, i, p, t, Offer) :
     i \in Infohashes, p \in PeerIds, t \in PeerIds \cup {Undefined}}
  \cup {Frame("object", FALSE, H1, P1, t, Offer) : t \in {EmptyStr, Num1}}
  \cup {Frame("object", TRUE, H1, P1, Undefined, Undefined)}
  \cup {Frame("object", FALSE, H1, P1, Undefined, Huge)}

\* frames that do not: no JSON at all, the JSON text null, and an object
\* whose infohash or peerId is absent, empty or a number
MalformedFrames ==
  {Frame("text", FALSE, Undefined, Undefined, Undefined, Undefined),
   Frame("null", FALSE, Undefined, Undefined, Undefined, Undefined)}
  \cup {Frame("object", FALSE, i, P1, Undefined, Offer) :
     i \in {Undefined, EmptyStr, Num1}}
  \cup {Frame("object", FALSE, H1, p, P1, Offer) :
     p \in {Undefined, EmptyStr, Num1}}

Frames == ValidFrames \cup MalformedFrames

\* the valid frames of a single swarm
SwarmFrames == {f \in ValidFrames : f.infohash = H1}

\* the value a JSON literal decodes to: a number literal beyond the range
\* of a double decodes to Infinity
Decoded(v) == IF v = Huge THEN Infinity ELSE v

\* the JSON literal a value is written as: JSON has no literal for a number
\* that is not finite, JSON.stringify writes null
Encoded(v) == IF v = Infinity THEN Null ELSE v

\* JSON.parse: throws on a text that is not JSON, drops insignificant
\* whitespace, yields null for the text null
JSONparse(raw) ==
  IF raw.kind = "text" THEN [ok |-> FALSE, value |-> Undefined]
  ELSE [ok |-> TRUE,
        value |-> [kind |-> raw.kind, infohash |-> Decoded(raw.infohash),
                   peerId |-> Decoded(raw.peerId),
                   toPeerId |-> Decoded(raw.toPeerId),
                   offer |-> Decoded(raw.offer)]]

\* JSON.stringify: the compact text of a decoded value
JSONstringify(data) ==
  Frame(data.kind, FALSE, Encoded(data.infohash), Encoded(data.peerId),
        Encoded(data.toPeerId), Encoded(data.offer))

\* ------------------------------------------------------------------ state
VARIABLES
  swarms,          \* Map<string, Set<WebSocket>>: function on its keys
  peerIdToSocket,  \* Map<string, WebSocket> in insertion order: sequence of entries
  socketSwarmMap,  \* Map<WebSocket, Set<string>>: function on its keys
  readyState,      \* WebSocket.readyState of every socket
  conn,            \* which events the transport has delivered for a socket
  crashed,         \* the process died of an uncaught exception
  last             \* the handler that ran last: its event, its sends, the tables before

vars == <<swarms, peerIdToSocket, socketSwarmMap, readyState, conn, crashed, last>>

EmptyMap == [x \in {} |-> {}]

Tables == [swarms |-> swarms, peerIdToSocket |-> peerIdToSocket,
           socketSwarmMap |-> socketSwarmMap]

NoTables == [swarms |-> EmptyMap, peerIdToSocket |-> <<>>,
             socketSwarmMap |-> EmptyMap]

NoFrame == Frame("none", FALSE, Undefined, Undefined, Undefined, Undefined)

\* what is recorded of a handler's run: its event, the frames it sent and,
\* for the two handlers that call removeClient, the tables it started from
Event(op, ws, raw, sends) ==
  [op |-> op, ws |-> ws, raw |-> raw, sends |-> sends,
   pre |-> IF op \in {"close", "error"} THEN Tables ELSE NoTables]

\* ------------------------------------------------------------ Map helpers
Keys(tbl) == {tbl[k].peerId : k \in DOMAIN tbl}

MapHas(tbl, key) == key \in Keys(tbl)

MapGet(tbl, key) ==
  LET k == CHOOSE j \in DOMAIN tbl : tbl[j].peerId = key IN tbl[k].socket

\* Map.prototype.set: an existing key keeps its position, a new key is appended
MapSet(tbl, key, ws) ==
  IF MapHas(tbl, key)
  THEN [k \in DOMAIN tbl |->
          IF tbl[k].peerId = key THEN [peerId |-> key, socket |-> ws] ELSE tbl[k]]
  ELSE Append(tbl, [peerId |-> key, socket |-> ws])

MapDelete(tbl, key) == SelectSeq(tbl, LAMBDA e : e.peerId # key)


\* ------------------------------------------------------- message handler
\* the validation of lines 43-50, negated: the message goes on
IsValid(data) ==
  ~(\/ ~Truthy(data.infohash)
    \/ ~Truthy(data.peerId)
    \/ TypeOf(data.infohash) # "string"
    \/ TypeOf(data.peerId) # "string")

\* mutant: joining a swarm takes the socket out of the swarms it was in
SwarmAdd_Move(sw, infohash, ws) ==
  [h \in DOMAIN sw \cup {infohash} |->
     IF h = infohash
     THEN (IF h \in DOMAIN sw THEN sw[h] ELSE {}) \cup {ws}
     ELSE sw[h] \ {ws}]

\* lines 56-60: create the swarm when absent, add the socket
SwarmAdd(sw, infohash, ws) ==
  [h \in DOMAIN sw \cup {infohash} |->
     IF h = infohash
     THEN (IF h \in DOMAIN sw THEN sw[h] ELSE {}) \cup {ws}
     ELSE sw[h]]

\* mutant: the infohash is recorded only for a socket that has none yet
MembershipAdd_FirstOnly(ssm, ws, infohash) ==
  IF ws \in DOMAIN ssm /\ ssm[ws] = {}
  THEN [ssm EXCEPT ![ws] = {infohash}] ELSE ssm

\* line 63: socketSwarmMap.get(ws)?.add(infohash)
MembershipAdd(ssm, ws, infohash) ==
  IF ws \in DOMAIN ssm THEN [ssm EXCEPT ![ws] = @ \cup {infohash}] ELSE ssm

\* mutant: the readyState test left out
IsOpen_Always(rs, ws) == rs[ws] # "NONE"

\* line 70 and line 78: readyState === WebSocket.OPEN
IsOpen(rs, ws) == rs[ws] = "OPEN"

\* mutant: the broadcast loop without its client !== ws test
Recipients_EchoSender(data, ws, tbl, sw, rs) ==
  IF Truthy(data.toPeerId) /\ MapHas(tbl, data.toPeerId)
  THEN LET targetSocket == MapGet(tbl, data.toPeerId) IN
       IF IsOpen(rs, targetSocket) THEN {targetSocket} ELSE {}
  ELSE {client \in sw[data.infohash] : IsOpen(rs, client)}

\* mutant: the broadcast loop runs after the unicast branch too (no else)
Recipients_NoElse(data, ws, tbl, sw, rs) ==
  (IF Truthy(data.toPeerId) /\ MapHas(tbl, data.toPeerId)
   THEN LET targetSocket == MapGet(tbl, data.toPeerId) IN
        IF IsOpen(rs, targetSocket) THEN {targetSocket} ELSE {}
   ELSE {})
  \cup {client \in sw[data.infohash] : client # ws /\ IsOpen(rs, client)}

\* mutant: a target that is not open makes the handler broadcast instead
Recipients_BroadcastWhenNotOpen(data, ws, tbl, sw, rs) ==
  IF /\ Truthy(data.toPeerId) /\ MapHas(tbl, data.toPeerId)
     /\ IsOpen(rs, MapGet(tbl, data.toPeerId))
  THEN {MapGet(tbl, data.toPeerId)}
  ELSE {client \in sw[data.infohash] : client # ws /\ IsOpen(rs, client)}

\* mutant: the broadcast loop walks the clients of every swarm
Recipients_AllSwarms(data, ws, tbl, sw, rs) ==
  IF Truthy(data.toPeerId) /\ MapHas(tbl, data.toPeerId)
  THEN LET targetSocket == MapGet(tbl, data.toPeerId) IN
       IF IsOpen(rs, targetSocket) THEN {targetSocket} ELSE {}
  ELSE {client \in UNION {sw[h] : h \in DOMAIN sw} :
          client # ws /\ IsOpen(rs, client)}

\* lines 67-83: the sockets send() is called on
Recipients(data, ws, tbl, sw, rs) ==
  IF Truthy(data.toPeerId) /\ MapHas(tbl, data.toPeerId)
  THEN LET targetSocket == MapGet(tbl, data.toPeerId) IN
       IF IsOpen(rs, targetSocket) THEN {targetSocket} ELSE {}
  ELSE {client \in sw[data.infohash] : client # ws /\ IsOpen(rs, client)}

\* lines 71 and 79: what is sent to every recipient
Sends(data, rcpt) == {[to |-> c, text |-> JSONstringify(data)] : c \in rcpt}

\* line 40 on a decoded null: the destructuring throws a TypeError outside
\* the try block; nothing catches it, the process exits and with it go the
\* tables and every connection.
Crash(ws, raw) ==
  /\ crashed' = TRUE
  /\ swarms' = EmptyMap
  /\ peerIdToSocket' = <<>>
  /\ socketSwarmMap' = EmptyMap
  /\ readyState' = [c \in Sockets |-> IF readyState[c] = "NONE" THEN "NONE" ELSE "CLOSED"]
  /\ conn' = [c \in Sockets |-> IF conn[c] = "new" THEN "new" ELSE "closed"]
  /\ last' = Event("message", ws, raw, {})

Discard(ws, raw) ==
  /\ UNCHANGED <<swarms, peerIdToSocket, socketSwarmMap, readyState, conn, crashed>>
  /\ last' = Event("message", ws, raw, {})

Route(ws, raw, data) ==
  LET tbl == MapSet(peerIdToSocket, data.peerId, ws)
      sw == SwarmAdd(swarms, data.infohash, ws)
  IN /\ peerIdToSocket' = tbl
     /\ swarms' = sw
     /\ socketSwarmMap' = MembershipAdd(socketSwarmMap, ws, data.infohash)
     /\ last' = Event("message", ws, raw,
                      Sends(data, Recipients(data, ws, tbl, sw, readyState)))
     /\ UNCHANGED <<readyState, conn, crashed>>

OnMessage(ws, raw) ==
  /\ ~crashed
  /\ conn[ws] \in {"tracked", "errored"}
  /\ LET parsed == JSONparse(raw) IN
     IF ~parsed.ok THEN Discard(ws, raw)
     ELSE IF parsed.value.kind = "null" THEN Crash(ws, raw)
     ELSE IF ~IsValid(parsed.value) THEN Discard(ws, raw)
     ELSE Route(ws, raw, parsed.value)

\* ------------------------------------------------------------ removeClient
\* mutant: the socket is deleted from its swarms, an emptied swarm is kept
SwarmsWithout_KeepEmpty(sw, ssm, ws) ==
  LET joinedInfohashes == IF ws \in DOMAIN ssm THEN ssm[ws] ELSE {}
  IN [h \in DOMAIN sw |-> IF h \in joinedInfohashes THEN sw[h] \ {ws} ELSE sw[h]]

\* lines 101-112
SwarmsWithout(sw, ssm, ws) ==
  LET joinedInfohashes == IF ws \in DOMAIN ssm THEN ssm[ws] ELSE {}
      left(h) == IF h \in joinedInfohashes THEN sw[h] \ {ws} ELSE sw[h]
  IN [h \in {k \in DOMAIN sw : left(k) # {}} |-> left(h)]

\* line 113
MembershipWithout(ssm, ws) == [c \in DOMAIN ssm \ {ws} |-> ssm[c]]

\* mutant: the loop without its socket === ws test
DisconnectedPeerId_AnySocket(tbl, ws) ==
  IF tbl = <<>> THEN Undefined ELSE tbl[Len(tbl)].peerId

\* lines 116-121: the forEach overwrites the variable, the last entry wins
DisconnectedPeerId(tbl, ws) ==
  LET hits == {k \in DOMAIN tbl : tbl[k].socket = ws} IN
  IF hits = {} THEN Undefined
  ELSE tbl[CHOOSE k \in hits : \A j \in hits : j <= k].peerId

\* lines 123-126
BindingsWithout(tbl, ws) ==
  LET disconnectedPeerId == DisconnectedPeerId(tbl, ws) IN
  IF Truthy(disconnectedPeerId) THEN MapDelete(tbl, disconnectedPeerId) ELSE tbl

RemoveClient(t, ws) ==
  [swarms |-> SwarmsWithout(t.swarms, t.socketSwarmMap, ws),
   peerIdToSocket |-> BindingsWithout(t.peerIdToSocket, ws),
   socketSwarmMap |-> MembershipWithout(t.socketSwarmMap, ws)]

Cleanup(ws) ==
  LET t == RemoveClient(Tables, ws) IN
  /\ swarms' = t.swarms
  /\ peerIdToSocket' = t.peerIdToSocket
  /\ socketSwarmMap' = t.socketSwarmMap

\* ------------------------------------------------------- the other events
\* lines 27-28; sockets are accepted in the order of their numbers
OnConnection(ws) ==
  /\ ~crashed
  /\ conn[ws] = "new"
  /\ \A c \in Sockets : c < ws => conn[c] # "new"
  /\ socketSwarmMap' = [c \in DOMAIN socketSwarmMap \cup {ws} |->
                          IF c = ws THEN {} ELSE socketSwarmMap[c]]
  /\ readyState' = [readyState EXCEPT ![ws] = "OPEN"]
  /\ conn' = [conn EXCEPT ![ws] = "tracked"]
  /\ last' = Event("connection", ws, NoFrame, {})
  /\ UNCHANGED <<swarms, peerIdToSocket, crashed>>

\* the closing handshake of an open socket begins: readyState leaves OPEN
\* before any close event is delivered
BeginClosing(ws) ==
  /\ ~crashed
  /\ conn[ws] = "tracked"
  /\ readyState[ws] = "OPEN"
  /\ readyState' = [readyState EXCEPT ![ws] = "CLOSING"]
  /\ last' = Event("closing", ws, NoFrame, {})
  /\ UNCHANGED <<swarms, peerIdToSocket, socketSwarmMap, conn, crashed>>

\* lines 90-93; the transport emits error at most once, before close, with
\* the socket no longer open
OnError(ws) ==
  /\ ~crashed
  /\ conn[ws] = "tracked"
  /\ Cleanup(ws)
  /\ readyState' = [readyState EXCEPT ![ws] = "CLOSING"]
  /\ conn' = [conn EXCEPT ![ws] = "errored"]
  /\ last' = Event("error", ws, NoFrame, {})
  /\ UNCHANGED crashed

\* lines 86-88; close is the last event of a socket
OnClose(ws) ==
  /\ ~crashed
  /\ conn[ws] \in {"tracked", "errored"}
  /\ Cleanup(ws)
  /\ readyState' = [readyState EXCEPT ![ws] = "CLOSED"]
  /\ conn' = [conn EXCEPT ![ws] = "closed"]
  /\ last' = Event("close", ws, NoFrame, {})
  /\ UNCHANGED crashed

\* ------------------------------------------------------------ specification
Init ==
  /\ swarms = EmptyMap
  /\ peerIdToSocket = <<>>
  /\ socketSwarmMap = EmptyMap
  /\ readyState = [c \in Sockets |-> "NONE"]
  /\ conn = [c \in Sockets |-> "new"]
  /\ crashed = FALSE
  /\ last = [op |-> "none", ws |-> 0, raw |-> NoFrame, sends |-> {},
             pre |-> NoTables]

\* two sockets, both swarms, every frame
Next ==
  \/ \E ws \in Pair : OnConnection(ws)
  \/ \E ws \in Pair, raw \in Frames : OnMessage(ws, raw)
  \/ \E ws \in Pair : BeginClosing(ws)
  \/ \E ws \in Pair : OnError(ws)
  \/ \E ws \in Pair : OnClose(ws)

Spec == Init /\ [][Next]_vars

\* three sockets in one swarm, valid frames
NextSwarm ==
  \/ \E ws \in Sockets : OnConnection(ws)
  \/ \E ws \in Sockets, raw \in SwarmFrames : OnMessage(ws, raw)
  \/ \E ws \in Sockets : BeginClosing(ws)
  \/ \E ws \in Sockets : OnError(ws)
  \/ \E ws \in Sockets : OnClose(ws)

SpecSwarm == Init /\ [][NextSwarm]_vars


\* ------------------------------------------------------ reading the state
Member(c, h) == h \in DOMAIN swarms /\ c \in swarms[h]

Joined(c, h) == c \in DOMAIN socketSwarmMap /\ h \in socketSwarmMap[c]

BoundTo(tbl, ws) == {tbl[k].peerId : k \in {j \in DOMAIN tbl : tbl[j].socket = ws}}

\* the handler that ran last was removeClient's caller, for socket last.ws
LastCleanup == last.op \in {"close", "error"}

\* the handler that ran last handled a frame that passed the validation
LastData == JSONparse(last.raw).value

LastRouted ==
  /\ last.op = "message"
  /\ JSONparse(last.raw).ok
  /\ LastData.kind = "object"
  /\ TypeOf(LastData.infohash) = "string" /\ LastData.infohash.val # ""
  /\ TypeOf(LastData.peerId) = "string" /\ LastData.peerId.val # ""

\* the sockets the last handler sent a frame to
LastRecipients == {s.to : s \in last.sends}

\* the other open members of the swarm the last message named
LastOpenOthers ==
  {c \in Sockets : /\ Member(c, LastData.infohash)
                   /\ c # last.ws
                   /\ readyState[c] = "OPEN"}

\* the cleanup of socket c has run
Removed(c) == conn[c] \in {"errored", "closed"}

\* ------------------------------------------------------------------ claims

\* C1: after every handler, a connection c is in swarms[h] if and only if h
\* is in socketSwarmMap[c], for every connection c and infohash h.
C1_MembershipConsistent ==
  \A c \in Sockets, h \in Infohashes : Member(c, h) <=> Joined(c, h)

\* C2: after every handler, every infohash that is a key of the swarm table
\* maps to a member set with at least one connection.
C2_NoEmptySwarm == \A h \in DOMAIN swarms : swarms[h] # {}

\* C2 witness: a cleanup has just taken the last member out of a swarm, and
\* the swarm's key is gone.
C2_SwarmDeleted ==
  /\ LastCleanup
  /\ \E h \in DOMAIN last.pre.swarms :
       /\ last.pre.swarms[h] = {last.ws}
       /\ h \notin DOMAIN swarms

\* C3: a valid message without toPeerId, or with a toPeerId that has no entry
\* in the peer-binding table when the handler looks it up, is sent to exactly
\* the open members of its swarm other than the sender.
C3_BroadcastDelivery ==
  (LastRouted /\ ~MapHas(peerIdToSocket, LastData.toPeerId))
    => LastRecipients = LastOpenOthers

\* C3 witness: a broadcast reached one member and skipped another that was
\* not open, and the sender sent under a target that names nobody.
C3_BroadcastHappened ==
  /\ LastRouted
  /\ ~MapHas(peerIdToSocket, LastData.toPeerId)
  /\ LastRecipients # {}
  /\ \E c \in Sockets :
       Member(c, LastData.infohash) /\ c # last.ws /\ readyState[c] # "OPEN"

\* C4: a valid message whose toPeerId is bound, when the handler looks it up,
\* to an open connection is sent to that connection and to no other.
C4_UnicastExclusive ==
  (/\ LastRouted
   /\ MapHas(peerIdToSocket, LastData.toPeerId)
   /\ readyState[MapGet(peerIdToSocket, LastData.toPeerId)] = "OPEN")
    => LastRecipients = {MapGet(peerIdToSocket, LastData.toPeerId)}

\* C4 witness: A sent to B's peerId while a third open socket C was a member
\* of the same swarm as A and B.
C4_UnicastWithThirdMember ==
  /\ LastRouted
  /\ MapHas(peerIdToSocket, LastData.toPeerId)
  /\ LET target == MapGet(peerIdToSocket, LastData.toPeerId) IN
     /\ target # last.ws
     /\ LastRecipients = {target}
     /\ \E c \in Sockets \ {target, last.ws} :
          /\ readyState[c] = "OPEN"
          /\ Member(c, LastData.infohash)
          /\ Member(target, LastData.infohash)

C6_NoStaleBinding == LastCleanup => BoundTo(peerIdToSocket, last.ws) = {}

\* C7: a message that is no JSON, or whose infohash or peerId is missing,
\* empty or no string, changes none of the three tables and sends nothing.
Malformed(raw) ==
  \/ ~JSONparse(raw).ok
  \/ \E v \in {JSONparse(raw).value.infohash, JSONparse(raw).value.peerId} :
       v = Undefined \/ v = EmptyStr \/ TypeOf(v) # "string"

C7_MalformedInert ==
  [][(last'.op = "message" /\ Malformed(last'.raw))
       => /\ swarms' = swarms
          /\ peerIdToSocket' = peerIdToSocket
          /\ socketSwarmMap' = socketSwarmMap
          /\ last'.sends = {}]_vars

\* C8: a valid message whose toPeerId was last claimed by a connection that
\* has since closed is broadcast to the other open members of its swarm.
C8_FallbackAfterDisconnect ==
  (/\ LastRouted
   /\ Truthy(LastData.toPeerId)
   /\ MapHas(peerIdToSocket, LastData.toPeerId)
        => conn[MapGet(peerIdToSocket, LastData.toPeerId)] = "closed")
    => LastRecipients = LastOpenOthers

\* C9: the cleanup of a connection leaves every binding to another connection
\* in place.
C9_RepointedBindingKept ==
  LastCleanup =>
    \A k \in DOMAIN last.pre.peerIdToSocket :
      LET e == last.pre.peerIdToSocket[k] IN
      e.socket # last.ws =>
        /\ MapHas(peerIdToSocket, e.peerId)
        /\ MapGet(peerIdToSocket, e.peerId) = e.socket

\* C9 witness: the first cleanup of a connection that had joined a swarm (so
\* it had claimed a peerId) and had lost every peerId it claimed to another
\* connection, whose binding is still there.
C9_RepointedThenCleaned ==
  /\ LastCleanup
  /\ last.ws \in DOMAIN last.pre.socketSwarmMap
  /\ last.pre.socketSwarmMap[last.ws] # {}
  /\ BoundTo(last.pre.peerIdToSocket, last.ws) = {}
  /\ \E c \in Sockets \ {last.ws} : BoundTo(peerIdToSocket, c) # {}

\* C10: from every reachable state, running removeClient twice for the same
\* connection leaves the tables as running it once does.
C10_CleanupIdempotent ==
  \A c \in Sockets :
    RemoveClient(RemoveClient(Tables, c), c) = RemoveClient(Tables, c)


\* C11: every frame delivered decodes to the sender's decoded message: the
\* same fields with the same values, none added, none dropped.
C11_VerbatimForwarding ==
  \A s \in last.sends :
    /\ JSONparse(s.text).ok
    /\ JSONparse(s.text).value = JSONparse(last.raw).value


\* C12: a connection whose cleanup has run is in no swarm, is no key of the
\* connection-membership table and is the value of no binding, whatever
\* events followed its cleanup.
C12_RemovedIsTerminal ==
  \A c \in Sockets :
    Removed(c) =>
      /\ \A h \in DOMAIN swarms : c \notin swarms[h]
      /\ c \notin DOMAIN socketSwarmMap
      /\ BoundTo(peerIdToSocket, c) = {}


\* the socket a peerId is bound to, 0 when it is bound to none
BindingOf(tbl, p) == IF MapHas(tbl, p) THEN MapGet(tbl, p) ELSE 0

\* C13: a valid message from c with peerId p leaves p bound to c, however it
\* was routed and whoever held p before; and a peerId is bound to the
\* connection that claimed it last and has not been cleaned up since: a
\* binding changes only by a claim of its peerId or by the cleanup of the
\* connection it points to, and that cleanup leaves no binding to it.
C13_LastWriterWins ==
  [][/\ LastRouted' => BindingOf(peerIdToSocket', LastData'.peerId) = last'.ws
     /\ LastCleanup' => BoundTo(peerIdToSocket', last'.ws) = {}
     /\ \A p \in Keys(peerIdToSocket) \cup Keys(peerIdToSocket') :
          BindingOf(peerIdToSocket', p) # BindingOf(peerIdToSocket, p) =>
            \/ LastRouted' /\ p = LastData'.peerId
            \/ LastCleanup' /\ BindingOf(peerIdToSocket, p) = last'.ws
            \/ crashed']_vars


\* C14: a valid message whose toPeerId is bound, when the handler looks it
\* up, to a connection that is not open is sent to no connection at all.
C14_NotReadyTargetDropped ==
  (/\ LastRouted
   /\ MapHas(peerIdToSocket, LastData.toPeerId)
   /\ readyState[MapGet(peerIdToSocket, LastData.toPeerId)] # "OPEN")
    => last.sends = {}

\* C14 witness: the target is a tracked member of the swarm in its closing
\* handshake, and an open third member would have got a broadcast.
C14_ClosingTargetDropped ==
  /\ LastRouted
  /\ MapHas(peerIdToSocket, LastData.toPeerId)
  /\ last.sends = {}
  /\ LET target == MapGet(peerIdToSocket, LastData.toPeerId) IN
     /\ target # last.ws
     /\ conn[target] = "tracked"
     /\ readyState[target] = "CLOSING"
     /\ Member(target, LastData.infohash)
     /\ \E c \in Sockets \ {target, last.ws} :
          readyState[c] = "OPEN" /\ Member(c, LastData.infohash)


\* C15: after a valid message from a tracked connection c with infohash h,
\* c is a member of swarms[h] and h is in c's membership set.
C15_ValidMessageJoins ==
  (LastRouted /\ conn[last.ws] = "tracked")
    => /\ Member(last.ws, LastData.infohash)
       /\ Joined(last.ws, LastData.infohash)

\* C15 witness: a unicast that was delivered, from a tracked sender that is
\* the only member of the swarm it named and is in another swarm as well.
C15_UnicastJoined ==
  /\ LastRouted
  /\ conn[last.ws] = "tracked"
  /\ MapHas(peerIdToSocket, LastData.toPeerId)
  /\ LastRecipients \ {last.ws} # {}
  /\ swarms[LastData.infohash] = {last.ws}
  /\ \E h \in Infohashes \ {LastData.infohash} : Joined(last.ws, h)


\* what the cleanup of last.ws left alone: every other connection is in the
\* swarms it was in and has the membership set it had
OthersUntouched ==
  \A d \in Sockets \ {last.ws} :
    /\ \A h \in Infohashes :
         Member(d, h) <=> (h \in DOMAIN last.pre.swarms /\ d \in last.pre.swarms[h])
    /\ d \in DOMAIN socketSwarmMap <=> d \in DOMAIN last.pre.socketSwarmMap
    /\ d \in DOMAIN socketSwarmMap => socketSwarmMap[d] = last.pre.socketSwarmMap[d]

\* C16: the cleanup of c takes c out of every swarm it had joined and drops
\* its membership set, and leaves every other connection's swarms and
\* membership set as they were.
C16_DisconnectRemovesOnlyItself ==
  LastCleanup =>
    /\ \A h \in DOMAIN swarms : last.ws \notin swarms[h]
    /\ last.ws \notin DOMAIN socketSwarmMap
    /\ OthersUntouched


\* C17 as stated: every connection a message is forwarded to, by unicast or
\* by broadcast, is at that moment a member of the swarm named by the
\* message's infohash.
C17_DeliveryInsideSwarm ==
  LastRouted => \A r \in LastRecipients : Member(r, LastData.infohash)

\* C17 amended: a broadcast reaches members of the message's swarm only; a
\* unicast reaches nothing but the connection its toPeerId is bound to,
\* member of that swarm or not.
C17_BroadcastInsideSwarm ==
  LastRouted =>
    IF MapHas(peerIdToSocket, LastData.toPeerId)
    THEN LastRecipients \subseteq {MapGet(peerIdToSocket, LastData.toPeerId)}
    ELSE \A r \in LastRecipients : Member(r, LastData.infohash)

\* a broadcast was delivered while the sender sits in a second swarm too
C17_BroadcastWithTwoSwarms ==
  /\ LastRouted
  /\ ~MapHas(peerIdToSocket, LastData.toPeerId)
  /\ LastRecipients # {}
  /\ \E h \in DOMAIN swarms \ {LastData.infohash} : swarms[h] # {}


\* C18 as stated: a message is never delivered back to the connection that
\* sent it, by broadcast or by unicast, also when its toPeerId is the peerId
\* the sender presents in the same message.
C18_NoEcho == LastRouted => last.ws \notin LastRecipients

\* C18 amended: a broadcast never comes back to its sender; a message comes
\* back to its sender exactly when its toPeerId is bound to the sender itself
\* and the sender is open.
C18_EchoOnlyBySelfUnicast ==
  LastRouted =>
    (last.ws \in LastRecipients <=>
       /\ MapHas(peerIdToSocket, LastData.toPeerId)
       /\ MapGet(peerIdToSocket, LastData.toPeerId) = last.ws
       /\ readyState[last.ws] = "OPEN")

\* a broadcast was delivered to another member and the sender, an open
\* member of the swarm itself, was passed over
C18_BroadcastSkipsSender ==
  /\ LastRouted
  /\ ~MapHas(peerIdToSocket, LastData.toPeerId)
  /\ LastRecipients \ {last.ws} # {}
  /\ readyState[last.ws] = "OPEN"
  /\ Member(last.ws, LastData.infohash)


\* C19: a valid message from c with infohash h and peerId p adds c to
\* swarms[h], adds h to c's membership set and binds p to c, and changes
\* nothing else: every other swarm, every other connection's membership set
\* and every binding of another peerId stay as they were, and no connection
\* leaves a swarm.
C19_MessageOnlyAdds ==
  [][LastRouted' =>
       LET c == last'.ws
           h == LastData'.infohash
           p == LastData'.peerId
       IN /\ DOMAIN swarms' = DOMAIN swarms \cup {h}
          /\ swarms'[h] = (IF h \in DOMAIN swarms THEN swarms[h] ELSE {}) \cup {c}
          /\ \A g \in DOMAIN swarms \ {h} : swarms'[g] = swarms[g]
          /\ DOMAIN socketSwarmMap' = DOMAIN socketSwarmMap
          /\ \A d \in DOMAIN socketSwarmMap :
               socketSwarmMap'[d] =
                 IF d = c THEN socketSwarmMap[d] \cup {h} ELSE socketSwarmMap[d]
          /\ Keys(peerIdToSocket') = Keys(peerIdToSocket) \cup {p}
          /\ BindingOf(peerIdToSocket', p) = c
          /\ \A q \in Keys(peerIdToSocket) \ {p} :
               BindingOf(peerIdToSocket', q) = BindingOf(peerIdToSocket, q)
          /\ UNCHANGED <<readyState, conn, crashed>>]_vars

\* a valid message has just been handled while its sender sat in another
\* swarm, another connection had a membership set of its own and another
\* peerId was bound
C19_JoinedSecondSwarm ==
  /\ LastRouted
  /\ \E g \in DOMAIN swarms \ {LastData.infohash} : last.ws \in swarms[g]
  /\ \E d \in DOMAIN socketSwarmMap \ {last.ws} : socketSwarmMap[d] # {}
  /\ Keys(peerIdToSocket) \ {LastData.peerId} # {}

====
